---------------------------- MODULE Spec2Model ----------------------------
(***************************************************************************)
(* Verification model of the academic plagiarism detection backend:        *)
(*   plagiarism/utils.py  - text extraction, normalisation, the lexical    *)
(*                          (TF-IDF) and semantic (BERT) similarity        *)
(*                          engines, the sentence matcher, the lazily      *)
(*                          loaded embedding model;                        *)
(*   plagiarism/views.py  - PlagiarismCheckView.post, the orchestrator;    *)
(*   plagiarism/models.py - PlagiarismResult (one row per submission).     *)
(*                                                                         *)
(* Texts are sequences of one-character strings.  Similarity scores are    *)
(* fixed-point numbers: the float 1.0 is the integer ONE.                  *)
(***************************************************************************)
EXTENDS Integers, Sequences, FiniteSets, TLC

VARIABLES
    SentenceTransformer, \* utils.py:20-23  the imported class, or None when the import failed
    PdfReader,           \* utils.py:15-18  the imported class, or None when the import failed
    punkt,               \* utils.py:27-32  whether the punkt tokenizer data is available
    _BERT_MODEL,         \* utils.py:63     the process-wide cached model, or NoModel
    loads,               \* number of SentenceTransformer(...) constructions that completed
    handedOut,           \* the models get_bert_model has returned to its callers
    call,                \* the last direct call of a similarity engine and its outcome
    assignments,         \* documents/models.py Assignment rows
    submissions,         \* documents/models.py Submission rows
    disk,                \* the files under MEDIA_ROOT, by path
    results,             \* plagiarism/models.py PlagiarismResult rows
    thr,                 \* per request thread: its position and local variables
    nreq                 \* requests (or calls) started so far

libs == <<SentenceTransformer, PdfReader, punkt>>

modelState == <<_BERT_MODEL, loads, handedOut>>

db == <<assignments, submissions, disk, results>>

vars == <<libs, modelState, call, db, thr, nreq>>

None == "None"

-----------------------------------------------------------------------------
(* Bounds of the model.                                                    *)

\* Longest list of comparison texts handed to an engine in a direct call.
MaxCmp == 2

\* Requests (or get_bert_model calls) started in one behaviour.
MaxRequests == 2

\* Most pages of a PDF handed to the text extractor in a direct call.
MaxPages == 2

\* Most sentences of the first document of a direct sentence-matcher call.
MaxSents == 2

-----------------------------------------------------------------------------
(* Characters and strings.                                                 *)

LowerOf ==
    [C |-> "c", D |-> "d", T |-> "t"]

UpperLetters == DOMAIN LowerOf

LowerLetters ==
    {"a","b","c","d","e","g","h","i","k","l","m","n","o","p","r","s","t","u","y"}

Digits == {"2","4","7"}

Whitespace == {" ", "\n"}

\* re: [a-zA-Z]
IsLetter(c) == c \in LowerLetters \cup UpperLetters

\* re: \w
IsWordChar(c) == IsLetter(c) \/ c \in Digits \/ c = "_"

\* str.lower() on one character
LowerChar(c) == IF c \in UpperLetters THEN LowerOf[c] ELSE c

\* str.lower()
Lower(s) == [i \in 1..Len(s) |-> LowerChar(s[i])]

Max(a, b) == IF a >= b THEN a ELSE b

Min(a, b) == IF a <= b THEN a ELSE b

\* The pieces of s between separator characters, empty pieces dropped
\* (str.split() on whitespace; the token pattern of the vectorizer).
RECURSIVE SplitFrom(_, _, _, _)
SplitFrom(s, i, cur, seps) ==
    IF i > Len(s)
    THEN IF cur = <<>> THEN <<>> ELSE <<cur>>
    ELSE IF s[i] \in seps
         THEN (IF cur = <<>> THEN <<>> ELSE <<cur>>) \o SplitFrom(s, i + 1, <<>>, seps)
         ELSE SplitFrom(s, i + 1, Append(cur, s[i]), seps)

\* str.split()
Split(s) == SplitFrom(s, 1, <<>>, Whitespace)

\* sep.join(parts)
RECURSIVE Join(_, _)
Join(parts, sep) ==
    IF parts = <<>> THEN <<>>
    ELSE IF Len(parts) = 1 THEN parts[1]
    ELSE parts[1] \o sep \o Join(Tail(parts), sep)

\* str.strip()
RECURSIVE LStrip(_)
LStrip(s) == IF s # <<>> /\ Head(s) \in Whitespace THEN LStrip(Tail(s)) ELSE s

RECURSIVE RStrip(_)
RStrip(s) ==
    IF s # <<>> /\ s[Len(s)] \in Whitespace THEN RStrip(SubSeq(s, 1, Len(s) - 1)) ELSE s

Strip(s) == RStrip(LStrip(s))

\* The sum of f[x] over the finite set S.
RECURSIVE SumOver(_, _)
SumOver(S, f) ==
    IF S = {} THEN 0
    ELSE LET x == CHOOSE y \in S : TRUE IN f[x] + SumOver(S \ {x}, f)

\* The first element in place of the largest (sim[0] for np.max(sim)).
SeqFirst(s) == s[1]

\* The largest element of a non-empty sequence of integers (np.max).
RECURSIVE SeqMax(_)
SeqMax(s) == IF Len(s) = 1 THEN s[1] ELSE Max(s[1], SeqMax(Tail(s)))

\* floor(sqrt(x)) for x >= 0, by bisection on lo <= r < hi.
RECURSIVE ISqrtIn(_, _, _)
ISqrtIn(x, lo, hi) ==
    IF hi - lo <= 1 THEN lo
    ELSE LET mid == (lo + hi) \div 2
         IN IF mid * mid <= x THEN ISqrtIn(x, mid, hi) ELSE ISqrtIn(x, lo, mid)

ISqrt(x) == ISqrtIn(x, 0, 46340)

-----------------------------------------------------------------------------
(* Document texts used as inputs.                                          *)

EMPTY == <<>>

TXT_A == \* "Cats sleep daily."
    <<"C","a","t","s"," ","s","l","e","e","p"," ","d","a","i","l","y",".">>

TXT_B == \* "Cats sleep today."
    <<"C","a","t","s"," ","s","l","e","e","p"," ","t","o","d","a","y",".">>

TXT_C == \* "Dogs bark loudly."
    <<"D","o","g","s"," ","b","a","r","k"," ","l","o","u","d","l","y",".">>

TXT_STOP == \* "The and the."  (stopwords only)
    <<"T","h","e"," ","a","n","d"," ","t","h","e",".">>

TXT_NUM == \* "42 7."  (no letters)
    <<"4","2"," ","7",".">>

TXT_SK == \* "amongst"  (a stop word of the vectorizer's list only)
    <<"a","m","o","n","g","s","t">>

\* The texts a direct engine call draws its arguments from.
SimTexts == {EMPTY, TXT_A, TXT_B, TXT_STOP, TXT_NUM, TXT_SK}

\* All lists of at most n texts.
RECURSIVE ListsUpTo(_, _)
ListsUpTo(S, n) ==
    IF n = 0 THEN {<<>>}
    ELSE LET shorter == ListsUpTo(S, n - 1)
         IN shorter \cup {Append(l, x) : l \in {m \in shorter : Len(m) = n - 1}, x \in S}

-----------------------------------------------------------------------------
(* Text normaliser: utils.py preprocess_text.                              *)

\* nltk stopwords.words("english"), the entries the input texts can hit.
STOP_WORDS == {<<"t","h","e">>, <<"a","n","d">>}

\* WordNetLemmatizer.lemmatize: the dictionary entries the input texts can
\* hit; every other word is its own lemma.
WordNetLemmas ==
    {<< <<"c","a","t","s">>, <<"c","a","t">> >>,
     << <<"d","o","g","s">>, <<"d","o","g">> >>}

Lemmatize(w) ==
    IF \E e \in WordNetLemmas : e[1] = w
    THEN (CHOOSE e \in WordNetLemmas : e[1] = w)[2]
    ELSE w

\* re.sub(r"[^a-zA-Z\s]", " ", text)
LettersOnly(text) ==
    [i \in 1..Len(text) |->
        IF IsLetter(text[i]) \/ text[i] \in Whitespace THEN text[i] ELSE " "]

preprocess_text(text) ==
    IF text = <<>> THEN <<>>
    ELSE LET words  == Split(Lower(LettersOnly(text)))
             tokens == SelectSeq(words, LAMBDA w : w \notin STOP_WORDS /\ Len(w) > 2)
             lemmas == [i \in 1..Len(tokens) |-> Lemmatize(tokens[i])]
         IN Join(lemmas, <<" ">>)

-----------------------------------------------------------------------------
(* Lexical engine: utils.py calculate_similarity.                          *)

\* The float 1.0 of the score range [0.0, 1.0], in fixed point.
ONE == 1000

\* max(0.0, min(1.0, x))
ClampNone(x) == x

Clamp(x) == Max(0, Min(ONE, x))

\* sklearn's ENGLISH_STOP_WORDS (stop_words="english"), the entries the
\* input texts can hit.
SKLEARN_STOP_WORDS ==
    {<<"t","h","e">>, <<"a","n","d">>, <<"a","m","o","n","g","s","t">>}

\* TfidfVectorizer's analyzer: lower-case, tokens of two or more word
\* characters (token_pattern \b\w\w+\b), stop words removed.
Analyze(doc) ==
    LET low    == Lower(doc)
        seps   == {low[i] : i \in {j \in 1..Len(low) : ~IsWordChar(low[j])}}
        tokens == SplitFrom(low, 1, <<>>, seps)
    IN SelectSeq(tokens, LAMBDA w : Len(w) >= 2 /\ w \notin SKLEARN_STOP_WORDS)

\* The number of occurrences of term in a token list (the term frequency).
Count(tokens, term) == Cardinality({i \in 1..Len(tokens) : tokens[i] = term})

\* 100 * (ln((1 + n) / (1 + df)) + 1), rounded: the smoothed inverse document
\* frequency of a term found in df of n documents, IdfTable[n][df].
IdfTable ==
    << <<100>>,
       <<141, 100>>,
       <<169, 129, 100>>,
       <<192, 151, 122, 100>>,
       <<210, 169, 141, 118, 100>>,
       <<225, 185, 156, 134, 115, 100>> >>

\* vectorizer.fit_transform(docs): one row of tf * idf weights per document
\* over the vocabulary of this batch; "ValueError" on an empty vocabulary.
\* (max_features = 20000 never prunes a vocabulary of the size modelled here.)
TfidfMatrix(docs) ==
    LET toks  == [i \in 1..Len(docs) |-> Analyze(docs[i])]
        vocab == UNION {{toks[i][k] : k \in 1..Len(toks[i])} : i \in 1..Len(docs)}
        n     == Len(docs)
        df    == [t \in vocab |-> Cardinality({i \in 1..n : Count(toks[i], t) > 0})]
    IN IF vocab = {} THEN [error |-> "ValueError", rows |-> <<>>]
       ELSE [error |-> None,
             rows  |-> [i \in 1..n |->
                          [t \in vocab |-> Count(toks[i], t) * IdfTable[n][df[t]]]]]

Dot(u, v) == SumOver(DOMAIN u, [t \in DOMAIN u |-> u[t] * v[t]])

\* The cosine of the angle between u and v in fixed point; 0 for a zero
\* vector (sklearn leaves zero rows unnormalised; the semantic engine
\* replaces a zero norm by 1e-10, and the dot product is then 0 as well).
Cosine(u, v) ==
    LET d  == Dot(u, v)
        nu == Dot(u, u)
        nv == Dot(v, v)
        a  == IF d < 0 THEN -d ELSE d
    IN IF nu = 0 \/ nv = 0 \/ d = 0 THEN 0
       ELSE LET c == ISqrt(((a * ONE) \div nu) * ((a * ONE) \div nv))
            IN IF d < 0 THEN -c ELSE c

\* [value |-> the returned score, stages |-> the stages the call went through]
calculate_similarity(new_doc, existing_docs) ==
    IF new_doc = <<>> THEN [value |-> 0, stages |-> {}]
    ELSE IF existing_docs = <<>> THEN [value |-> 0, stages |-> {}]
    ELSE LET docs == <<preprocess_text(new_doc)>>
                     \o [i \in 1..Len(existing_docs) |-> preprocess_text(existing_docs[i])]
         IN IF \A i \in 1..Len(docs) : Strip(docs[i]) = <<>>
            THEN [value |-> 0, stages |-> {"preprocess"}]
            ELSE LET fit          == TfidfMatrix(docs)
                     tfidf_matrix == fit.rows
                 IN IF fit.error # None
                    THEN \* except Exception: return 0.0
                         [value |-> 0, stages |-> {"preprocess", "vectorize", "except"}]
                    ELSE LET sim == [j \in 1..(Len(docs) - 1) |->
                                        Cosine(tfidf_matrix[1], tfidf_matrix[j + 1])]
                         IN [value  |-> Clamp(SeqMax(sim)),
                             stages |-> {"preprocess", "vectorize", "cosine"}]

-----------------------------------------------------------------------------
(* The lazily loaded embedding model: utils.py get_bert_model.             *)

\* utils.py:66 and :218, the default model_name, and another identifier.
DefaultModel == "all-MiniLM-L6-v2"

ModelNames == {DefaultModel, "paraphrase-MiniLM-L3-v2"}

\* A constructed SentenceTransformer: the name it was built from and the
\* ordinal of its construction in this process.
ModelInstance(model_name, n) == [name |-> model_name, serial |-> n]

\* _BERT_MODEL = None: nothing cached.
NoModel == [name |-> None, serial |-> 0]

\* The outcomes of one uninterrupted call get_bert_model(model_name) with
\* the cache holding `cache`, the imported class being `cls`, and n
\* constructions completed so far.  The construction itself may fail
\* (model files missing, no network): both outcomes are possible.
get_bert_model(model_name, cache, cls, n) ==
    IF cache # NoModel
    THEN {[raised |-> None, model |-> cache, cache |-> cache, constructed |-> 0]}
    ELSE IF cls = None
    THEN {[raised |-> "ImportError", model |-> NoModel, cache |-> cache, constructed |-> 0]}
    ELSE {[raised |-> None, model |-> ModelInstance(model_name, n + 1),
           cache |-> ModelInstance(model_name, n + 1), constructed |-> 1],
          [raised |-> "Exception", model |-> NoModel, cache |-> cache, constructed |-> 0]}

-----------------------------------------------------------------------------
(* Semantic engine: utils.py calculate_semantic_similarity.                *)

\* The embedding vectors model.encode may return for a text.  The encoder is
\* a pretrained network outside the repository: any assignment of these
\* vectors to the texts of a call is a possible output.
Vecs == {<<1, 0>>, <<1, 1>>, <<-1, 0>>, <<0, 0>>}

\* np.dot(u, v) / (norm(u) * norm(v)) for each pair of embedding vectors,
\* a zero norm replaced by 1e-10 (tabulated once).
VecCosine == [u \in Vecs, v \in Vecs |-> Cosine(u, v)]

\* Every outcome of the call: [value, stages, raised (the exception caught
\* inside, or None), model (the instance that encoded, or None), cache (the
\* value of _BERT_MODEL afterwards), constructed (0 or 1 constructions)].
calculate_semantic_similarity_eager(new_doc, existing_docs, model_name, cache, cls, n) ==
    \* the model is requested before the guards
    UNION {
        IF g.raised # None
        THEN {[value |-> 0, stages |-> {"load", "except"}, raised |-> g.raised,
               model |-> NoModel, cache |-> g.cache, constructed |-> g.constructed]}
        ELSE {[value |-> 0, stages |-> {"load"}, raised |-> None,
               model |-> g.model, cache |-> g.cache, constructed |-> g.constructed]}
        : g \in get_bert_model(model_name, cache, cls, n)}

calculate_semantic_similarity(new_doc, existing_docs, model_name, cache, cls, n) ==
    IF new_doc = <<>> \/ existing_docs = <<>>
    THEN {[value |-> 0, stages |-> {}, raised |-> None,
           model |-> NoModel, cache |-> cache, constructed |-> 0]}
    ELSE UNION {
        IF g.raised # None
        THEN \* except Exception: return 0.0
             {[value |-> 0, stages |-> {"load", "except"}, raised |-> g.raised,
               model |-> NoModel, cache |-> g.cache, constructed |-> g.constructed]}
        ELSE LET texts == <<new_doc>> \o existing_docs
             IN {LET new_vec       == embeddings[1]
                     cosine_scores == [j \in 1..(Len(texts) - 1) |->
                                          VecCosine[embeddings[j + 1], new_vec]]
                 IN [value |-> Clamp(SeqMax(cosine_scores)),
                     stages |-> {"load", "encode", "cosine"}, raised |-> None,
                     model |-> g.model, cache |-> g.cache, constructed |-> g.constructed]
                 : embeddings \in [1..Len(texts) -> Vecs]}
        : g \in get_bert_model(model_name, cache, cls, n)}

-----------------------------------------------------------------------------
(* Text extractor: utils.py extract_text_from_file.                        *)

\* A byte that is not valid UTF-8; open(..., errors="ignore") drops it.
BadByte == "\\xff"

\* A path is <<stem, extension>>: os.path.splitext(file_path).
SplitExt(file_path) == file_path[2]

\* ext.lower()
LowerExt(ext) ==
    CASE ext = ".TXT" -> ".txt"
      [] ext = ".PDF" -> ".pdf"
      [] OTHER -> ext

\* No file at a path.
NoFile == [exists |-> FALSE]

\* f.read() of a file opened with encoding="utf-8", errors="ignore"
Decode(bytes) == SelectSeq(bytes, LAMBDA b : b # BadByte)

\* A page of a PDF: page.extract_text() returns its text or raises.
Page(raises, text) == [raises |-> raises, text |-> text]

\* The pages loop with a failing page ending the whole extraction.
PageTextsAbort(pages) ==
    IF \E k \in 1..Len(pages) : pages[k].raises THEN <<>>
    ELSE [k \in 1..Len(pages) |-> pages[k].text]

\* The texts of the pages whose extraction did not raise, in document order
\* (page.extract_text() or "").
RECURSIVE PageTexts(_)
PageTexts(pages) ==
    IF pages = <<>> THEN <<>>
    ELSE (IF Head(pages).raises THEN <<>> ELSE <<Head(pages).text>>)
         \o PageTexts(Tail(pages))

\* fs: the files on disk, path -> [exists, readable, parses, bytes, pages];
\* pdf: the imported PdfReader class or None.
extract_text_from_file(file_path, fs, pdf) ==
    IF file_path = <<>> THEN <<>>
    ELSE LET ext  == LowerExt(SplitExt(file_path))
             file == fs[file_path]
         IN IF ext = ".txt"
            THEN IF ~file.exists \/ ~file.readable
                 THEN <<>>                       \* open() raised: except Exception
                 ELSE Decode(file.bytes)
            ELSE IF ext = ".pdf"
            THEN IF pdf = None THEN <<>>
                 ELSE IF ~file.exists \/ ~file.readable \/ ~file.parses
                 THEN <<>>                       \* open() or PdfReader(f) raised
                 ELSE Join(PageTexts(file.pages), <<"\n">>)
            ELSE <<>>

\* Whether extract_text_from_file completes its .txt or .pdf branch (lines
\* 93-96, 97-110) rather than ending in the empty string of a failure path: a
\* falsy path, a missing library, an error raised while opening or parsing
\* the file, or an extension that is not supported.
Extracts(file_path, fs, pdf) ==
    /\ file_path # <<>>
    /\ LET ext  == LowerExt(SplitExt(file_path))
           file == fs[file_path]
       IN /\ file.exists /\ file.readable
          /\ \/ ext = ".txt"
             \/ ext = ".pdf" /\ pdf # None /\ file.parses

-----------------------------------------------------------------------------
(* Sentence matcher: utils.py extract_matching_sentences.                  *)

\* Default threshold 0.8 and the score precision round(x, 4), as 1/10000ths.
Threshold == 8000

\* re.sub(r"\s+", " ", s.strip())
RECURSIVE CollapseWs(_)
CollapseWs(s) ==
    IF s = <<>> THEN <<>>
    ELSE IF Head(s) \in Whitespace
         THEN <<" ">> \o CollapseWs(LStrip(s))
         ELSE <<Head(s)>> \o CollapseWs(Tail(s))

_normalize_sentence(s) == CollapseWs(Strip(s))

\* nltk.sent_tokenize: a sentence ends after '.', '!' or '?' when whitespace
\* or the end of the text follows; the pieces are returned stripped.
RECURSIVE SentFrom(_, _, _)
SentFrom(s, i, cur) ==
    IF i > Len(s)
    THEN IF Strip(cur) = <<>> THEN <<>> ELSE <<Strip(cur)>>
    ELSE IF s[i] \in {".", "!", "?"} /\ (i = Len(s) \/ s[i + 1] \in Whitespace)
         THEN <<Strip(Append(cur, s[i]))>> \o SentFrom(s, i + 1, <<>>)
         ELSE SentFrom(s, i + 1, Append(cur, s[i]))

sent_tokenize(doc) == SentFrom(doc, 1, <<>>)

\* doc.split("."): the pieces between periods, empty pieces included.
RECURSIVE SplitPeriod(_, _, _)
SplitPeriod(s, i, cur) ==
    IF i > Len(s) THEN <<cur>>
    ELSE IF s[i] = "." THEN <<cur>> \o SplitPeriod(s, i + 1, <<>>)
         ELSE SplitPeriod(s, i + 1, Append(cur, s[i]))

\* The length of the longest common prefix of a[i..] and b[j..].
RECURSIVE CommonLen(_, _, _, _)
CommonLen(a, i, b, j) ==
    IF i > Len(a) \/ j > Len(b) \/ a[i] # b[j] THEN 0
    ELSE 1 + CommonLen(a, i + 1, b, j + 1)

\* SequenceMatcher.find_longest_match: the longest block common to a and b,
\* the one starting earliest in a and, among those, earliest in b.
LongestMatch(a, b) ==
    LET size  == [i \in 1..Len(a), j \in 1..Len(b) |-> CommonLen(a, i, b, j)]
        best  == LET all == {size[p] : p \in DOMAIN size}
                 IN CHOOSE k \in all : \A m \in all : m <= k
        i0    == CHOOSE i \in 1..Len(a) :
                    /\ \E j \in 1..Len(b) : size[i, j] = best
                    /\ \A i2 \in 1..(i - 1) : \A j \in 1..Len(b) : size[i2, j] < best
        j0    == CHOOSE j \in 1..Len(b) :
                    /\ size[i0, j] = best
                    /\ \A j2 \in 1..(j - 1) : size[i0, j2] < best
    IN [i |-> i0, j |-> j0, size |-> best]

\* The total size of SequenceMatcher.get_matching_blocks(): the longest
\* block, then recursively the pieces to its left and to its right.
RECURSIVE MatchedChars(_, _)
MatchedChars(a, b) ==
    IF a = <<>> \/ b = <<>> THEN 0
    ELSE LET blk == LongestMatch(a, b)
         IN IF blk.size = 0 THEN 0
            ELSE blk.size
                 + MatchedChars(SubSeq(a, 1, blk.i - 1), SubSeq(b, 1, blk.j - 1))
                 + MatchedChars(SubSeq(a, blk.i + blk.size, Len(a)),
                                SubSeq(b, blk.j + blk.size, Len(b)))

\* SequenceMatcher(None, a, b).ratio() = 2.0 * M / T as the fraction
\* [num |-> 2 * M, den |-> T]; 1.0 when both are empty.
Ratio(a, b) ==
    IF Len(a) + Len(b) = 0 THEN [num |-> 1, den |-> 1]
    ELSE [num |-> 2 * MatchedChars(a, b), den |-> Len(a) + Len(b)]

\* r > q and r >= q for fractions with positive denominators
FracGt(r, q) == r.num * q.den > q.num * r.den

\* round(r, 4), in 1/10000ths
Round4(r) == (2 * 10000 * r.num + r.den) \div (2 * r.den)

\* Sentences of doc that survive the length filter, normalised.  has_punkt is
\* FALSE when the has_punkt tokenizer data is missing and sent_tokenize raises.
Sentences(doc, has_punkt) ==
    LET pieces == IF has_punkt THEN sent_tokenize(doc) ELSE SplitPeriod(doc, 1, <<>>)
        kept   == SelectSeq(pieces, LAMBDA x : x # <<>> /\ Len(Strip(x)) > 10)
    IN [k \in 1..Len(kept) |-> _normalize_sentence(kept[k])]

\* The scan taking the first sentence of sents2 whatever the later ones score.
BestMatchFirst(s1, sents2, n) ==
    IF n = 0 THEN [score |-> [num |-> 0, den |-> 1], match |-> <<>>, found |-> FALSE]
    ELSE [score |-> Ratio(Lower(s1), Lower(sents2[1])), match |-> sents2[1],
          found |-> Ratio(Lower(s1), Lower(sents2[1])).num > 0]

\* The best match of s1 among sents2 after scanning the first n of them:
\* [score, match], starting from best_score = 0.0, best_match = None.
RECURSIVE BestMatch(_, _, _)
BestMatch(s1, sents2, n) ==
    IF n = 0 THEN [score |-> [num |-> 0, den |-> 1], match |-> <<>>, found |-> FALSE]
    ELSE LET prev  == BestMatch(s1, sents2, n - 1)
             score == Ratio(Lower(s1), Lower(sents2[n]))
         IN IF FracGt(score, prev.score)
            THEN [score |-> score, match |-> sents2[n], found |-> TRUE]
            ELSE prev

RECURSIVE MatchesFrom(_, _, _, _)
MatchesFrom(sents1, sents2, k, threshold) ==
    IF k > Len(sents1) THEN <<>>
    ELSE LET b == BestMatch(sents1[k], sents2, Len(sents2))
         IN (IF 10000 * b.score.num >= threshold * b.score.den /\ b.found /\ b.match # <<>>
             THEN <<[doc1 |-> sents1[k], doc2 |-> b.match, score |-> Round4(b.score)]>>
             ELSE <<>>)
            \o MatchesFrom(sents1, sents2, k + 1, threshold)

extract_matching_sentences(doc1, doc2, threshold, has_punkt) ==
    IF doc1 = <<>> \/ doc2 = <<>> THEN <<>>
    ELSE MatchesFrom(Sentences(doc1, has_punkt), Sentences(doc2, has_punkt), 1, threshold)

-----------------------------------------------------------------------------
(* The stored data: users, assignments, submissions, files, results.       *)

\* users/models.py User.role; "guest1" carries a role outside ROLE_CHOICES.
RoleOf ==
    [prof1 |-> "professor", prof2 |-> "professor", stud1 |-> "student",
     stud2 |-> "student", admin1 |-> "admin", guest1 |-> "guest"]

Users == DOMAIN RoleOf

\* The users whose requests are explored: one of each role.
Requesters == {"prof1", "stud1", "admin1", "guest1"}

Assignment(id, professor) == [id |-> id, professor |-> professor]

Submission(id, assignment, student, document) ==
    [id |-> id, assignment |-> assignment, student |-> student, document |-> document,
     similarity_score |-> 0, status |-> "Pending"]

\* FileField with no file: submission.document is falsy, .path raises.
NoDocument == <<>>

P_a1 == <<"submissions/a1", ".txt">>

P_a2 == <<"submissions/a2", ".TXT">>

P_a3 == <<"submissions/a3", ".docx">>

P_b1 == <<"submissions/b1", ".txt">>

P_b2 == <<"submissions/b2", ".txt">>

P_c2 == <<"submissions/c2", ".pdf">>

P_d1 == <<"submissions/d1", ".txt">>

Paths == {P_a1, P_a2, P_a3, P_b1, P_b2, P_c2, P_d1}

TextFile(bytes) ==
    [exists |-> TRUE, readable |-> TRUE, parses |-> FALSE, bytes |-> bytes, pages |-> <<>>]

PdfFile(pages) ==
    [exists |-> TRUE, readable |-> TRUE, parses |-> TRUE, bytes |-> <<>>, pages |-> pages]

\* The stored data every behaviour starts from: four assignments;
\*   A1: 1 and 2 with similar texts, 3 a .docx upload (no text extractable);
\*   A2: 4 whose file cannot be opened, 5 whose file is gone from the disk;
\*   A3: 6 without a document, 7 a PDF with one page that fails to extract;
\*   A4: 8 alone.
InitAssignments ==
    {Assignment("A1", "prof1"), Assignment("A2", "prof2"),
     Assignment("A3", "prof1"), Assignment("A4", "prof2")}

InitSubmissions ==
    {Submission(1, "A1", "stud1", P_a1), Submission(2, "A1", "stud2", P_a2),
     Submission(3, "A1", "stud1", P_a3),
     Submission(4, "A2", "stud1", P_b1), Submission(5, "A2", "stud2", P_b2),
     Submission(6, "A3", "stud1", NoDocument), Submission(7, "A3", "stud2", P_c2),
     Submission(8, "A4", "stud2", P_d1)}

InitDisk ==
    [p \in Paths |->
        CASE p = P_a1 -> TextFile(TXT_A)
          [] p = P_a2 -> TextFile(TXT_B)
          [] p = P_a3 -> TextFile(<<BadByte, BadByte>>)
          [] p = P_b1 -> [TextFile(TXT_C) EXCEPT !.readable = FALSE]
          [] p = P_b2 -> NoFile
          [] p = P_c2 -> PdfFile(<<Page(FALSE, TXT_A), Page(TRUE, <<>>), Page(FALSE, TXT_C)>>)
          [] p = P_d1 -> TextFile(TXT_A)]

\* The ids a request may name: every submission and one id that is no row.
TargetIds == 1..9

\* os.path.exists(file_path)
PathExists(fs, file_path) == file_path \in DOMAIN fs /\ fs[file_path].exists

\* The rows of a table as a sequence in ascending id (the order the query
\* returns them in).
RECURSIVE OrderById(_)
OrderById(rows) ==
    IF rows = {} THEN <<>>
    ELSE LET first == CHOOSE r \in rows : \A q \in rows : r.id <= q.id
         IN <<first>> \o OrderById(rows \ {first})

\* The same query without .exclude(id=submission.id).
OtherSubmissionsWithSelf(subs, submission) ==
    OrderById({o \in subs : o.assignment = submission.assignment})

\* Submission.objects.filter(assignment=submission.assignment).exclude(id=submission.id)
OtherSubmissions(subs, submission) ==
    OrderById({o \in subs : o.assignment = submission.assignment /\ o.id # submission.id})

\* The ids of a sequence of rows.
Ids(rows) == [k \in 1..Len(rows) |-> rows[k].id]

\* str(n) for a non-negative integer.
RECURSIVE Str(_)
Str(n) ==
    LET digit == <<"0", "1", "2", "3", "4", "5", "6", "7", "8", "9">>
    IN IF n < 10 THEN <<digit[n + 1]>> ELSE Str(n \div 10) \o <<digit[(n % 10) + 1]>>

\* The same string over only the rows that have a file.
JoinIdsWithFile(rows) ==
    Join([k \in 1..Len(SelectSeq(rows, LAMBDA s : s.document # <<>>)) |->
             Str(SelectSeq(rows, LAMBDA s : s.document # <<>>)[k].id)], <<",">>)

\* ",".join([str(s.id) for s in rows]) if rows else ""
JoinIds(rows) == Join([k \in 1..Len(rows) |-> Str(rows[k].id)], <<",">>)

-----------------------------------------------------------------------------
(* PlagiarismResult rows: plagiarism/models.py.                            *)

NoResult == [pk |-> 0]

ResultsFor(rows, sid) == {r \in rows : r.submission = sid}

NextPk(rows) ==
    IF rows = {} THEN 1
    ELSE 1 + (CHOOSE k \in {r.pk : r \in rows} : \A r \in rows : r.pk <= k)

\* INSERT of a row.  submission is a OneToOneField: a second row for the
\* same submission violates its unique constraint.
InsertResultNoUnique(rows, row) == [error |-> None, rows |-> rows \cup {row}]

InsertResult(rows, row) ==
    IF ResultsFor(rows, row.submission) # {}
    THEN [error |-> "IntegrityError", rows |-> rows]
    ELSE [error |-> None, rows |-> rows \cup {row}]

\* UPDATE of the row with primary key pk with the values of `defaults`.
UpdateResult(rows, pk, defaults) ==
    {IF r.pk = pk THEN defaults @@ r ELSE r : r \in rows}

-----------------------------------------------------------------------------
(* Requests and the per-thread state of a running handler.                 *)

Threads == {"t1", "t2"}

\* The values a request may send under "algorithm" (None is JSON null).
Algorithms == {"TF-IDF", "BERT", "bert", None}

\* request.data: a dict, as a sequence of <<key, value>> pairs.
Bodies == {<<>>} \cup {<< <<"algorithm", a>> >> : a \in Algorithms}

\* request.data.get(key, default)
DataGet(data, key, default) ==
    IF \E i \in 1..Len(data) : data[i][1] = key
    THEN data[CHOOSE i \in 1..Len(data) : data[i][1] = key][2]
    ELSE default

NoSubmission == [id |-> 0]

NoDefaults == [similarity_score |-> 0, compared_with |-> <<>>, algorithm |-> None, report |-> <<>>]

\* A thread that is running nothing.  Apart from the handler's own local
\* variables the record keeps what the run did: `extracted` (the population
\* members whose text extraction was attempted), `matched` (those handed to
\* the sentence matcher), `engine` (the similarity engine that was called),
\* `raised` (the exception the engine caught inside) and `model` (the model
\* get_bert_model returned).
IdleThread ==
    [pc |-> "idle", user |-> "", sid |-> 0, data |-> <<>>, model_name |-> "",
     submission |-> NoSubmission, new_doc_text |-> <<>>, nonEmpty |-> FALSE,
     evaluated |-> FALSE, other_submissions |-> <<>>, existing_docs |-> <<>>,
     extracted |-> <<>>, matched |-> <<>>, engine |-> "none", raised |-> None,
     model |-> NoModel, similarity |-> 0, detailed_report |-> <<>>,
     defaults |-> NoDefaults, found |-> 0,
     status |-> 0, error |-> None, result |-> NoResult]

\* Response(body, status=...): the thread holds its response until it
\* starts another request.
Respond(t, local, status, error, result) ==
    thr' = [thr EXCEPT ![t] =
               [local EXCEPT !.pc = "done", !.status = status,
                             !.error = error, !.result = result]]

CanStart(t) == thr[t].pc \in {"idle", "done"} /\ nreq < MaxRequests

-----------------------------------------------------------------------------
(* plagiarism/views.py: PlagiarismCheckView.post                           *)

\* The role check left to permission_classes alone: every authenticated
\* user passes.
ensure_authenticated(user) == user \notin Users

\* ensure_prof_or_admin: TRUE when the request is denied.
ensure_prof_or_admin(user) == RoleOf[user] \notin {"professor", "admin"}

\* The handler creating the target's result row as soon as the target is
\* loaded, to fill it in at the end.
CheckBeginRowFirst(t, user, submission_id, data) ==
    /\ CanStart(t)
    /\ nreq' = nreq + 1
    /\ LET local == [IdleThread EXCEPT !.user = user, !.sid = submission_id]
           found == {s \in submissions : s.id = submission_id}
       IN IF ensure_prof_or_admin(user)
          THEN /\ Respond(t, [IdleThread EXCEPT !.user = user], 403,
                          "You do not have permission to perform this action.", NoResult)
               /\ UNCHANGED results
          ELSE IF found = {}
          THEN /\ Respond(t, local, 404, "Submission not found", NoResult)
               /\ UNCHANGED results
          ELSE LET submission == CHOOSE s \in found : TRUE
                   loaded     == [local EXCEPT !.submission = submission]
                   pending    == [pk |-> NextPk(results), submission |-> submission.id]
                                     @@ [NoDefaults EXCEPT !.algorithm = "TF-IDF"]
               IN /\ results' = InsertResult(results, pending).rows
                  /\ IF submission.document = NoDocument
                     THEN Respond(t, loaded, 400, "Submission has no document file.", NoResult)
                     ELSE IF ~PathExists(disk, submission.document)
                     THEN Respond(t, loaded, 500, "Submission file not found on disk.", NoResult)
                     ELSE LET text   == extract_text_from_file(submission.document, disk,
                                                               PdfReader)
                              others == OtherSubmissions(submissions, submission)
                          IN thr' = [thr EXCEPT ![t] =
                                        [loaded EXCEPT !.pc = IF others # <<>>
                                                              THEN "population"
                                                              ELSE "persist",
                                                       !.data = data,
                                                       !.new_doc_text = text,
                                                       !.nonEmpty = (others # <<>>)]]
    /\ UNCHANGED <<libs, modelState, call, assignments, submissions, disk>>

\* Lines 64-103: role check, target lookup, target extraction, and the
\* exists() query on the rest of the assignment.  request.data is not read
\* on the way; a run that goes on keeps it for lines 120 and 157.
CheckBegin(t, user, submission_id, data) ==
    /\ CanStart(t)
    /\ nreq' = nreq + 1
    /\ LET local == [IdleThread EXCEPT !.user = user, !.sid = submission_id]
           found == {s \in submissions : s.id = submission_id}
       IN IF ensure_prof_or_admin(user)
          THEN Respond(t, [IdleThread EXCEPT !.user = user], 403,
                       "You do not have permission to perform this action.", NoResult)
          ELSE IF found = {}
          THEN Respond(t, local, 404, "Submission not found", NoResult)
          ELSE LET submission == CHOOSE s \in found : TRUE
                   loaded     == [local EXCEPT !.submission = submission]
               IN IF submission.document = NoDocument
                  THEN Respond(t, loaded, 400, "Submission has no document file.", NoResult)
                  ELSE IF ~PathExists(disk, submission.document)
                  THEN Respond(t, loaded, 500, "Submission file not found on disk.", NoResult)
                  ELSE LET text   == extract_text_from_file(submission.document, disk, PdfReader)
                           others == OtherSubmissions(submissions, submission)
                       IN thr' = [thr EXCEPT ![t] =
                                     [loaded EXCEPT !.pc = IF others # <<>> THEN "population"
                                                                            ELSE "persist",
                                                    !.data = data,
                                                    !.new_doc_text = text,
                                                    !.nonEmpty = (others # <<>>)]]
    /\ UNCHANGED <<libs, modelState, call, db>>

\* Lines 108-115: the texts of the population.  Only a member without a
\* file raises (s.document.path); extract_text_from_file itself never does.
ExistingDocs(others, fs, pdf) ==
    LET withFile == SelectSeq(others, LAMBDA s : s.document # NoDocument)
    IN [k \in 1..Len(withFile) |-> extract_text_from_file(withFile[k].document, fs, pdf)]

\* The engines with one vectorizer kept at module level: fitted by the first
\* request, it has no term for the documents of a later one.
EngineOutcomesKeptVectorizer(algorithm, new_doc_text, existing_docs, cached, cls, n) ==
    IF Len(existing_docs) = 0
    THEN {[engine |-> "none", value |-> 0, raised |-> None, model |-> NoModel,
           cache |-> cached, constructed |-> 0]}
    ELSE IF algorithm = "BERT"
    THEN {[engine |-> "semantic", value |-> r.value, raised |-> r.raised, model |-> r.model,
           cache |-> r.cache, constructed |-> r.constructed]
          : r \in calculate_semantic_similarity(new_doc_text, existing_docs,
                                                DefaultModel, cached, cls, n)}
    ELSE {[engine |-> "lexical",
           value |-> IF nreq > 1 THEN 0
                     ELSE calculate_similarity(new_doc_text, existing_docs).value,
           raised |-> None, model |-> NoModel, cache |-> cached, constructed |-> 0]}

\* Lines 117-133: the engine call and everything it can come to.
EngineOutcomes(algorithm, new_doc_text, existing_docs, cached, cls, n) ==
    IF Len(existing_docs) = 0
    THEN {[engine |-> "none", value |-> 0, raised |-> None, model |-> NoModel,
           cache |-> cached, constructed |-> 0]}
    ELSE IF algorithm = "BERT"
    THEN {[engine |-> "semantic", value |-> r.value, raised |-> r.raised, model |-> r.model,
           cache |-> r.cache, constructed |-> r.constructed]
          : r \in calculate_semantic_similarity(new_doc_text, existing_docs,
                                                DefaultModel, cached, cls, n)}
    ELSE {[engine |-> "lexical",
           value |-> calculate_similarity(new_doc_text, existing_docs).value,
           raised |-> None, model |-> NoModel, cache |-> cached, constructed |-> 0]}

\* The report loop with its try around the whole loop instead of inside it:
\* the first member without a document ends the report.
RECURSIVE DetailedReportAbort(_, _, _, _, _)
DetailedReportAbort(new_doc_text, others, fs, pdf, has_punkt) ==
    IF others = <<>> THEN <<>>
    ELSE LET other == Head(others)
         IN IF other.document = NoDocument THEN <<>>
            ELSE LET other_text == extract_text_from_file(other.document, fs, pdf)
                     matches    == extract_matching_sentences(new_doc_text, other_text,
                                                              Threshold, has_punkt)
                     rest       == DetailedReportAbort(new_doc_text, Tail(others), fs, pdf,
                                                       has_punkt)
                 IN IF matches # <<>>
                    THEN <<[compared_with |-> other.id, matches |-> matches]>> \o rest
                    ELSE rest

\* Lines 136-148: one report entry per population member with a match.
RECURSIVE DetailedReport(_, _, _, _, _)
DetailedReport(new_doc_text, others, fs, pdf, has_punkt) ==
    IF others = <<>> THEN <<>>
    ELSE LET other == Head(others)
             rest  == DetailedReport(new_doc_text, Tail(others), fs, pdf, has_punkt)
         IN IF other.document = NoDocument THEN rest
            ELSE LET other_text == extract_text_from_file(other.document, fs, pdf)
                     matches    == extract_matching_sentences(new_doc_text, other_text,
                                                              Threshold, has_punkt)
                 IN IF matches # <<>>
                    THEN <<[compared_with |-> other.id, matches |-> matches]>> \o rest
                    ELSE rest

\* Lines 107-148: the population is read, its texts extracted, the engine
\* called and the report built.
CheckPopulation(t) ==
    /\ thr[t].pc = "population"
    /\ LET local    == thr[t]
           others   == OtherSubmissions(submissions, local.submission)
           withFile == SelectSeq(others, LAMBDA s : s.document # NoDocument)
           docs     == ExistingDocs(others, disk, PdfReader)
           algorithm == DataGet(local.data, "algorithm", "TF-IDF")
       IN \E o \in EngineOutcomes(algorithm, local.new_doc_text, docs,
                                  _BERT_MODEL, SentenceTransformer, loads) :
             /\ thr' = [thr EXCEPT ![t] =
                           [local EXCEPT !.pc = "persist",
                                         !.evaluated = TRUE,
                                         !.other_submissions = others,
                                         !.existing_docs = docs,
                                         !.extracted = Ids(withFile),
                                         !.matched = Ids(withFile),
                                         !.engine = o.engine,
                                         !.raised = o.raised,
                                         !.model = o.model,
                                         !.similarity = o.value,
                                         !.detailed_report =
                                             DetailedReport(local.new_doc_text, others, disk,
                                                            PdfReader, punkt)]]
             /\ _BERT_MODEL' = o.cache
             /\ loads' = loads + o.constructed
             /\ handedOut' = IF o.model # NoModel THEN handedOut \cup {o.model} ELSE handedOut
    /\ UNCHANGED <<libs, call, db, nreq>>

\* Line 155: the engine's 0..1 score as a percentage, unscaled here.
PercentUnscaled(similarity) == similarity

\* Line 155: similarity * 100 if similarity is not None else 0.0
Percent(similarity) == similarity * 100

\* Lines 152-159: the defaults are evaluated (other_submissions is queried
\* again when the population branch did not evaluate it) and
\* update_or_create looks the row up.
PersistGet(t) ==
    /\ thr[t].pc = "persist"
    /\ LET local    == thr[t]
           others   == IF local.evaluated THEN local.other_submissions
                       ELSE OtherSubmissions(submissions, local.submission)
           defaults == [similarity_score |-> Percent(local.similarity),
                        compared_with |-> JoinIds(others),
                        algorithm |-> DataGet(local.data, "algorithm", "TF-IDF"),
                        report |-> local.detailed_report]
           rows     == ResultsFor(results, local.submission.id)
       IN thr' = [thr EXCEPT ![t] =
                     [local EXCEPT !.pc = "write",
                                   !.defaults = defaults,
                                   !.found = IF rows = {} THEN 0
                                             ELSE (CHOOSE r \in rows :
                                                      \A q \in rows : r.pk <= q.pk).pk]]
    /\ UNCHANGED <<libs, modelState, call, db, nreq>>

\* The write followed by submission.similarity_score = ...; submission.save():
\* the score copied to the Submission row of the target.
PersistWriteScoresSubmission(t) ==
    /\ thr[t].pc = "write"
    /\ LET local == thr[t]
           sid   == local.submission.id
           row   == [pk |-> NextPk(results), submission |-> sid] @@ local.defaults
           ins   == InsertResult(results, row)
           pk    == IF local.found # 0 THEN local.found
                    ELSE IF ins.error = None THEN row.pk
                    ELSE (CHOOSE r \in ResultsFor(results, sid) : TRUE).pk
           rows  == IF local.found = 0 /\ ins.error = None THEN ins.rows
                    ELSE UpdateResult(results, pk, local.defaults)
       IN IF local.defaults.algorithm = None \/ ~\E o \in submissions : o.id = sid
          THEN /\ Respond(t, local, 500, "Failed to persist plagiarism result.", NoResult)
               /\ UNCHANGED <<results, submissions>>
          ELSE /\ results' = rows
               /\ submissions' =
                      {IF o.id = sid
                       THEN [o EXCEPT !.similarity_score = local.defaults.similarity_score,
                                      !.status = "Checked"]
                       ELSE o : o \in submissions}
               /\ Respond(t, local, 200, None, CHOOSE r \in rows : r.pk = pk)
    /\ UNCHANGED <<libs, modelState, call, assignments, disk, nreq>>

\* Lines 152-179: update_or_create writes the row (algorithm is a NOT NULL
\* column and submission a foreign key: a null value, or a Submission row
\* deleted in the meantime, fails the write) and the response is built.
PersistWrite(t) ==
    /\ thr[t].pc = "write"
    /\ LET local == thr[t]
           sid   == local.submission.id
           row   == [pk |-> NextPk(results), submission |-> sid] @@ local.defaults
           ins   == InsertResult(results, row)
           pk    == IF local.found # 0 THEN local.found
                    ELSE IF ins.error = None THEN row.pk
                    ELSE (CHOOSE r \in ResultsFor(results, sid) : TRUE).pk
           rows  == IF local.found = 0 /\ ins.error = None THEN ins.rows
                    ELSE UpdateResult(results, pk, local.defaults)
       IN IF local.defaults.algorithm = None \/ ~\E o \in submissions : o.id = sid
          THEN /\ Respond(t, local, 500, "Failed to persist plagiarism result.", NoResult)
               /\ UNCHANGED results
          ELSE /\ results' = rows
               /\ Respond(t, local, 200, None, CHOOSE r \in rows : r.pk = pk)
    /\ UNCHANGED <<libs, modelState, call, assignments, submissions, disk, nreq>>

\* No direct engine call is under way.
NoCall == [fn |-> "none"]

\* The world every behaviour starts in.
InitWorld ==
    /\ PdfReader = "PdfReader"
    /\ punkt = TRUE
    /\ handedOut = {}
    /\ assignments = InitAssignments
    /\ submissions = InitSubmissions
    /\ disk = InitDisk
    /\ results = {}
    /\ thr = [t \in Threads |-> IdleThread]
    /\ nreq = 0

\* Spec: check requests served one at a time.
Init ==
    /\ InitWorld
    /\ SentenceTransformer \in {None, "SentenceTransformer"}
    /\ _BERT_MODEL = NoModel
    /\ loads = 0
    /\ call = NoCall

Next ==
    \/ \E user \in Requesters, submission_id \in TargetIds, data \in Bodies :
          CheckBegin("t1", user, submission_id, data)
    \/ CheckPopulation("t1")
    \/ PersistGet("t1")
    \/ PersistWrite("t1")

Spec == Init /\ [][Next]_vars

\* SpecRace: two threads serve check requests of a professor concurrently.
RaceTargets == {1, 8}

RaceBodies == {<<>>, << <<"algorithm", "BERT">> >>}

NextRace ==
    \E t \in Threads :
        \/ \E submission_id \in RaceTargets, data \in RaceBodies :
              CheckBegin(t, "prof1", submission_id, data)
        \/ CheckPopulation(t)
        \/ PersistGet(t)
        \/ PersistWrite(t)

SpecRace == Init /\ [][NextRace]_vars

-----------------------------------------------------------------------------
(* SpecBert: utils.py get_bert_model, statement by statement, called from  *)
(* concurrent threads.                                                     *)

\* Line 66: a thread enters get_bert_model(model_name).
GbmCall(t, model_name) ==
    /\ CanStart(t)
    /\ nreq' = nreq + 1
    /\ thr' = [thr EXCEPT ![t] = [IdleThread EXCEPT !.pc = "gbm_test",
                                                    !.model_name = model_name]]
    /\ UNCHANGED <<libs, modelState, call, db>>

\* Lines 71-73: `if _BERT_MODEL is None`, then the import check.
GbmTest(t) ==
    /\ thr[t].pc = "gbm_test"
    /\ IF _BERT_MODEL # NoModel
       THEN thr' = [thr EXCEPT ![t].pc = "gbm_return"]
       ELSE IF SentenceTransformer = None
       THEN thr' = [thr EXCEPT ![t].pc = "done", ![t].raised = "ImportError"]
       ELSE thr' = [thr EXCEPT ![t].pc = "gbm_construct"]
    /\ UNCHANGED <<libs, modelState, call, db, nreq>>

\* Lines 74-78: the model is constructed and stored, or the constructor's
\* exception is logged and re-raised.
GbmConstruct(t) ==
    /\ thr[t].pc = "gbm_construct"
    /\ \E ok \in BOOLEAN :
          IF ok
          THEN /\ _BERT_MODEL' = ModelInstance(thr[t].model_name, loads + 1)
               /\ loads' = loads + 1
               /\ thr' = [thr EXCEPT ![t].pc = "gbm_return"]
          ELSE /\ thr' = [thr EXCEPT ![t].pc = "done", ![t].raised = "Exception"]
               /\ UNCHANGED <<_BERT_MODEL, loads>>
    /\ UNCHANGED <<libs, handedOut, call, db, nreq>>

\* Line 79: return _BERT_MODEL (the global is read again).
GbmReturn(t) ==
    /\ thr[t].pc = "gbm_return"
    /\ thr' = [thr EXCEPT ![t].pc = "done", ![t].model = _BERT_MODEL]
    /\ handedOut' = handedOut \cup {_BERT_MODEL}
    /\ UNCHANGED <<libs, _BERT_MODEL, loads, call, db, nreq>>

NextBert ==
    \E t \in Threads :
        \/ \E model_name \in ModelNames : GbmCall(t, model_name)
        \/ GbmTest(t)
        \/ GbmConstruct(t)
        \/ GbmReturn(t)

SpecBert == Init /\ [][NextBert]_vars

-----------------------------------------------------------------------------
(* SpecSim: one direct call of a similarity engine on arbitrary arguments. *)

\* The states of the model cache a call can find: empty, or holding the
\* model an earlier call constructed.
CacheStates(cls) ==
    IF cls = None THEN {NoModel} ELSE {NoModel} \cup {ModelInstance(m, 1) : m \in ModelNames}

InitSim ==
    /\ InitWorld
    /\ SentenceTransformer \in {None, "SentenceTransformer"}
    /\ _BERT_MODEL \in CacheStates(SentenceTransformer)
    /\ loads = IF _BERT_MODEL = NoModel THEN 0 ELSE 1
    /\ \E fn \in {"lexical", "semantic"}, t \in SimTexts,
          C \in ListsUpTo(SimTexts, MaxCmp), m \in ModelNames :
          /\ fn = "lexical" => m = DefaultModel
          /\ call = [fn |-> fn, done |-> FALSE, new_doc |-> t, existing_docs |-> C,
                     model_name |-> m, cacheBefore |-> _BERT_MODEL]

CallLexical ==
    /\ call.fn = "lexical" /\ ~call.done
    /\ LET r == calculate_similarity(call.new_doc, call.existing_docs)
       IN call' = [call EXCEPT !.done = TRUE] @@
                  [value |-> r.value, stages |-> r.stages, raised |-> None, model |-> NoModel]
    /\ UNCHANGED <<libs, modelState, db, thr, nreq>>

CallSemantic ==
    /\ call.fn = "semantic" /\ ~call.done
    /\ \E r \in calculate_semantic_similarity(call.new_doc, call.existing_docs,
                    call.model_name, _BERT_MODEL, SentenceTransformer, loads) :
          /\ call' = [call EXCEPT !.done = TRUE] @@
                     [value |-> r.value, stages |-> r.stages, raised |-> r.raised,
                      model |-> r.model]
          /\ _BERT_MODEL' = r.cache
          /\ loads' = loads + r.constructed
    /\ UNCHANGED <<libs, handedOut, db, thr, nreq>>

NextSim == CallLexical \/ CallSemantic

SpecSim == InitSim /\ [][NextSim]_vars

Called == call.fn # "none" /\ call.done

\* C1: every value returned by calculate_similarity and by
\* calculate_semantic_similarity lies in [0.0, 1.0].
C1_ScoreInRange ==
    Called => (call.value >= 0 /\ call.value <= ONE)

\* A semantic call whose best cosine is strictly inside the range.
C1_Witness ==
    /\ Called /\ call.fn = "semantic"
    /\ call.value > 0 /\ call.value < ONE

\* C2: with an empty target or an empty comparison list either engine
\* returns exactly 0.0 at once: no normalisation, no vectorisation, the model
\* is not requested and the model cache is left as it was.
C2_EmptyInputReturnsZero ==
    (Called /\ (call.new_doc = <<>> \/ call.existing_docs = <<>>)) =>
        /\ call.value = 0
        /\ call.stages = {}
        /\ _BERT_MODEL = call.cacheBefore
        /\ loads = (IF call.cacheBefore = NoModel THEN 0 ELSE 1)

\* An empty target against a non-empty list, semantic engine, backend
\* installed and nothing cached: a call that would otherwise load the model.
C2_Witness ==
    /\ Called /\ call.fn = "semantic"
    /\ call.new_doc = <<>> /\ call.existing_docs # <<>>
    /\ SentenceTransformer # None /\ call.cacheBefore = NoModel

-----------------------------------------------------------------------------
(* SpecExtract: one direct call of extract_text_from_file on any path.     *)

\* The paths of a direct call: the empty path, and a path under each
\* extension (".txt" and ".pdf" in either case, another one, none).
ExtractPaths ==
    {<<>>} \cup {<<"submissions/x", e>> : e \in {".txt", ".TXT", ".pdf", ".PDF", ".docx", ""}}

\* What page.extract_text() may do for a page.
PageKinds == {Page(TRUE, <<>>), Page(FALSE, <<>>), Page(FALSE, TXT_NUM), Page(FALSE, TXT_SK)}

\* What may lie at the path: nothing, a file that cannot be opened, a file
\* of text bytes (some of them not UTF-8), or a PDF of up to MaxPages pages.
ExtractFiles ==
    {NoFile, [TextFile(TXT_NUM) EXCEPT !.readable = FALSE],
     TextFile(EMPTY), TextFile(TXT_NUM), TextFile(<<BadByte>> \o TXT_NUM \o <<BadByte>>)}
    \cup {PdfFile(pages) : pages \in ListsUpTo(PageKinds, MaxPages)}

InitExtract ==
    /\ SentenceTransformer = "SentenceTransformer"
    /\ PdfReader \in {None, "PdfReader"}
    /\ punkt = TRUE
    /\ _BERT_MODEL = NoModel /\ loads = 0 /\ handedOut = {}
    /\ assignments = InitAssignments /\ submissions = InitSubmissions /\ results = {}
    /\ thr = [t \in Threads |-> IdleThread]
    /\ nreq = 0
    /\ \E file_path \in ExtractPaths, file \in ExtractFiles :
          /\ disk = [q \in {file_path} |-> file]
          /\ call = [fn |-> "extract", done |-> FALSE, file_path |-> file_path]

CallExtract ==
    /\ call.fn = "extract" /\ ~call.done
    /\ call' = [call EXCEPT !.done = TRUE] @@
               [value |-> extract_text_from_file(call.file_path, disk, PdfReader)]
    /\ UNCHANGED <<libs, modelState, db, thr, nreq>>

NextExtract == CallExtract

SpecExtract == InitExtract /\ [][NextExtract]_vars

-----------------------------------------------------------------------------
(* SpecMatch: one direct call of extract_matching_sentences.               *)

SENT_U == \* "CaTs sleep Daily."  (TXT_A in another case)
    <<"C","a","T","s"," ","s","l","e","e","p"," ","D","a","i","l","y",".">>

SENT_N == \* "4242424242427!"  (no character in common with the others)
    <<"4","2","4","2","4","2","4","2","4","2","4","2","7","!">>

SENT_S == \* "Too short."  (10 characters)
    <<"T","o","o"," ","s","h","o","r","t",".">>

SENT_W == \* "Cats    \n  nap."  (15 characters, 9 once whitespace is collapsed)
    <<"C","a","t","s"," "," "," "," ","\n"," "," ","n","a","p",".">>

\* A document of the given sentences, one space between them.
DocOf(sentences) == Join(sentences, <<" ">>)

\* The first documents of a call: up to MaxSents sentences.
MatchDocs1 ==
    {DocOf(l) : l \in ListsUpTo({TXT_B, SENT_U, SENT_S, SENT_W}, MaxSents)}

\* The second documents of a call: up to two sentences.
MatchDocs2 ==
    {DocOf(l) : l \in ListsUpTo({TXT_A, SENT_N, SENT_S, SENT_W}, 2)}

\* The thresholds of a call, in 1/10000ths: keep everything, and the default.
Thresholds == {0, Threshold}

InitMatch ==
    /\ SentenceTransformer = "SentenceTransformer"
    /\ PdfReader = "PdfReader"
    /\ punkt \in BOOLEAN
    /\ _BERT_MODEL = NoModel /\ loads = 0 /\ handedOut = {}
    /\ assignments = InitAssignments /\ submissions = InitSubmissions
    /\ disk = InitDisk /\ results = {}
    /\ thr = [t \in Threads |-> IdleThread]
    /\ nreq = 0
    /\ \E doc1 \in MatchDocs1, doc2 \in MatchDocs2, threshold \in Thresholds :
          call = [fn |-> "match", done |-> FALSE, doc1 |-> doc1, doc2 |-> doc2,
                  threshold |-> threshold]

CallMatch ==
    /\ call.fn = "match" /\ ~call.done
    /\ call' = [call EXCEPT !.done = TRUE] @@
               [value |-> extract_matching_sentences(call.doc1, call.doc2,
                                                     call.threshold, punkt)]
    /\ UNCHANGED <<libs, modelState, db, thr, nreq>>

NextMatch == CallMatch

SpecMatch == InitMatch /\ [][NextMatch]_vars

\* SpecReport: one check request on an assignment of three submissions, each
\* with no document, a text file, an unreadable file or a PDF.
ReportDocuments == {NoDocument, P_a1, P_b1, P_c2}

ReportSubmissions ==
    {{Submission(1, "A1", "stud1", d[1]), Submission(2, "A1", "stud2", d[2]),
      Submission(3, "A1", "stud1", d[3])} : d \in [1..3 -> ReportDocuments]}

InitReport ==
    /\ PdfReader = "PdfReader"
    /\ punkt = TRUE
    /\ handedOut = {}
    /\ assignments = InitAssignments
    /\ submissions \in ReportSubmissions
    /\ disk = InitDisk
    /\ results = {}
    /\ thr = [t \in Threads |-> IdleThread]
    /\ nreq = MaxRequests - 1
    /\ SentenceTransformer \in {None, "SentenceTransformer"}
    /\ _BERT_MODEL = NoModel
    /\ loads = 0
    /\ call = NoCall

SpecReport == InitReport /\ [][Next]_vars

-----------------------------------------------------------------------------
(* SpecView: the result list and the result detail endpoints over any set  *)
(* of stored results.                                                      *)

\* The row a check of submission sid may have left under primary key pk.
ResultRow(pk, sid) ==
    [pk |-> pk, submission |-> sid] @@ [NoDefaults EXCEPT !.algorithm = "TF-IDF"]

\* The stored results after checks of the submissions in S, run in id order.
ResultsOf(S) == {ResultRow(Cardinality({x \in S : x <= sid}), sid) : sid \in S}

\* .order_by("-id")
RECURSIVE OrderByIdDesc(_)
OrderByIdDesc(rows) ==
    IF rows = {} THEN <<>>
    ELSE LET first == CHOOSE r \in rows : \A q \in rows : r.pk >= q.pk
         IN <<first>> \o OrderByIdDesc(rows \ {first})

\* submission__student=user and submission__assignment__professor=user
SubmittedBy(r, user, subs) == \E o \in subs : o.id = r.submission /\ o.student = user

OwnedBy(r, user, subs, asgs) ==
    \E o \in subs : /\ o.id = r.submission
                     /\ \E g \in asgs : g.id = o.assignment /\ g.professor = user

\* PlagiarismResultListView.get_queryset
get_queryset(user, rows, subs, asgs) ==
    LET role == RoleOf[user]
    IN IF role = "admin" THEN OrderByIdDesc(rows)
       ELSE IF role = "professor"
       THEN OrderByIdDesc({r \in rows : OwnedBy(r, user, subs, asgs)})
       ELSE IF role = "student"
       THEN OrderByIdDesc({r \in rows : SubmittedBy(r, user, subs)})
       ELSE <<>>

\* PlagiarismResultView.get with the ownership tests left out: the generic
\* retrieve for every role of ROLE_CHOICES.
retrieve_any(user, submission_id, rows, subs, asgs) ==
    LET role  == RoleOf[user]
        found == ResultsFor(rows, submission_id)
    IN IF role \notin {"professor", "student", "admin"}
       THEN [status |-> 403, value |-> <<>>]
       ELSE IF found = {} THEN [status |-> 404, value |-> <<>>]
       ELSE [status |-> 200, value |-> <<CHOOSE r \in found : TRUE>>]

\* PlagiarismResultView.get, then RetrieveAPIView.get: get_object() looks the
\* row up in PlagiarismResult.objects.all() by submission_id, 404 if none.
retrieve(user, submission_id, rows, subs, asgs) ==
    LET role  == RoleOf[user]
        found == ResultsFor(rows, submission_id)
    IN IF role = "professor" /\ ~\E r \in found : OwnedBy(r, user, subs, asgs)
       THEN [status |-> 404, value |-> <<>>]
       ELSE IF role = "student" /\ ~\E r \in found : SubmittedBy(r, user, subs)
       THEN [status |-> 404, value |-> <<>>]
       ELSE IF role \notin {"professor", "student", "admin"}
       THEN [status |-> 403, value |-> <<>>]
       ELSE IF found = {} THEN [status |-> 404, value |-> <<>>]
       ELSE [status |-> 200, value |-> <<CHOOSE r \in found : TRUE>>]

InitView ==
    /\ PdfReader = "PdfReader"
    /\ punkt = TRUE
    /\ handedOut = {}
    /\ assignments = InitAssignments
    /\ submissions = InitSubmissions
    /\ disk = InitDisk
    /\ results \in {ResultsOf(S) : S \in SUBSET {o.id : o \in InitSubmissions}}
    /\ thr = [t \in Threads |-> IdleThread]
    /\ nreq = 0
    /\ SentenceTransformer = "SentenceTransformer"
    /\ _BERT_MODEL = NoModel
    /\ loads = 0
    /\ call = NoCall

\* GET /api/plagiarism/results/
ListResults(user) ==
    /\ call' = [fn |-> "list", user |-> user, sid |-> 0, status |-> 200,
                value |-> get_queryset(user, results, submissions, assignments)]
    /\ UNCHANGED <<libs, modelState, db, thr, nreq>>

\* GET /api/plagiarism/results/<submission_id>/
RetrieveResult(user, submission_id) ==
    /\ LET r == retrieve(user, submission_id, results, submissions, assignments)
       IN call' = [fn |-> "detail", user |-> user, sid |-> submission_id,
                   status |-> r.status, value |-> r.value]
    /\ UNCHANGED <<libs, modelState, db, thr, nreq>>

NextView ==
    \/ \E user \in Users : ListResults(user)
    \/ \E user \in Users, submission_id \in TargetIds : RetrieveResult(user, submission_id)

SpecView == InitView /\ [][NextView]_vars

-----------------------------------------------------------------------------
(* SpecUpload: documents/views.py SubmissionCreateView, called from         *)
(* concurrent threads on an empty Submission table.                        *)

\* users/permissions.py IsStudent
IsStudent(user) == RoleOf[user] = "student"

\* request.FILES.get("document"): no file, or a file with its name and
\* whether its size is over 10 * 1024 * 1024.
NoUpload == [name |-> <<>>, oversize |-> FALSE]

Upload(name, oversize) == [name |-> name, oversize |-> oversize]

UploadFiles ==
    {NoUpload, Upload(<<"essay", ".TXT">>, FALSE), Upload(<<"essay", ".exe">>, FALSE),
     Upload(<<"essay", ".pdf">>, TRUE)}

valid_extensions == {".pdf", ".txt", ".doc", ".docx"}

\* The assignments whose deadline lies before the time of the requests.
DeadlinePassed == {"A3"}

\* The "assignment" values of a request: three rows and one id that is none.
UploadAssignments == {"A1", "A3", "A4", "A9"}

\* The name the storage gives a file under upload_to="submissions/": the
\* first of these that no file on the disk has.
StorageNames ==
    <<"submissions/essay", "submissions/essay_1", "submissions/essay_2",
      "submissions/essay_3", "submissions/essay_4">>

AvailableName(fs, ext) ==
    LET k == CHOOSE i \in 1..Len(StorageNames) :
                 /\ <<StorageNames[i], ext>> \notin DOMAIN fs
                 /\ \A j \in 1..(i - 1) : <<StorageNames[j], ext>> \in DOMAIN fs
    IN <<StorageNames[k], ext>>

NextId(rows) ==
    IF rows = {} THEN 1
    ELSE 1 + (CHOOSE k \in {r.id : r \in rows} : \A r \in rows : r.id <= k)

InitUpload ==
    /\ PdfReader = "PdfReader"
    /\ punkt = TRUE
    /\ handedOut = {}
    /\ assignments = InitAssignments
    /\ submissions = {}
    /\ disk = <<>>
    /\ results = {}
    /\ thr = [t \in Threads |-> IdleThread]
    /\ nreq = 0
    /\ SentenceTransformer = "SentenceTransformer"
    /\ _BERT_MODEL = NoModel
    /\ loads = 0
    /\ call = NoCall

\* The permission classes, the serializer's required fields and
\* perform_create up to line 107.
UploadBegin(t, user, assignment, file) ==
    /\ CanStart(t)
    /\ nreq' = nreq + 1
    /\ LET local == [IdleThread EXCEPT !.user = user]
           ext   == IF file = NoUpload THEN "" ELSE LowerExt(SplitExt(file.name))
       IN IF ~IsStudent(user)
          THEN Respond(t, local, 403, "You do not have permission to perform this action.",
                       NoResult)
          ELSE IF file = NoUpload
          THEN Respond(t, local, 400, "No file provided under key 'document'.", NoResult)
          ELSE IF ext \notin valid_extensions
          THEN Respond(t, local, 400, "Only .pdf, .txt, .doc, .docx are allowed.", NoResult)
          ELSE IF file.oversize
          THEN Respond(t, local, 400, "File size exceeds 10MB limit.", NoResult)
          ELSE IF ~\E g \in assignments : g.id = assignment
          THEN Respond(t, local, 400, "Assignment must be provided.", NoResult)
          ELSE IF \E o \in submissions : o.student = user /\ o.assignment = assignment
          THEN Respond(t, local, 400, "You have already submitted for this assignment.",
                       NoResult)
          ELSE IF assignment \in DeadlinePassed
          THEN Respond(t, local, 400, "Deadline has passed. Submission not allowed.",
                       NoResult)
          ELSE thr' = [thr EXCEPT ![t] =
                          [local EXCEPT !.pc = "save",
                                        !.submission =
                                            Submission(0, assignment, user, file.name)]]
    /\ UNCHANGED <<libs, modelState, call, db>>

\* Line 109, serializer.save(student=student): the file goes to the storage
\* and the row is inserted.
UploadSave(t) ==
    /\ thr[t].pc = "save"
    /\ LET local == thr[t]
           path  == AvailableName(disk, SplitExt(local.submission.document))
           row   == [local.submission EXCEPT !.id = NextId(submissions), !.document = path]
       IN /\ disk' = disk @@ (path :> TextFile(TXT_A))
          /\ submissions' = submissions \cup {row}
          /\ Respond(t, [local EXCEPT !.submission = row], 201, None, NoResult)
    /\ UNCHANGED <<libs, modelState, call, assignments, results, nreq>>

NextUpload ==
    \/ \E t \in Threads, user \in Requesters, assignment \in UploadAssignments,
          file \in UploadFiles : UploadBegin(t, user, assignment, file)
    \/ \E t \in Threads : UploadSave(t)

SpecUpload == InitUpload /\ [][NextUpload]_vars

-----------------------------------------------------------------------------
(* SpecChurn: a check on one thread while submissions are uploaded and      *)
(* deleted on another.                                                     *)

\* users/permissions.py IsAdmin
IsAdmin(user) == RoleOf[user] = "admin"

\* AdminSubmissionUpdateDeleteView, DELETE: the row goes, and with it
\* (on_delete=CASCADE) the PlagiarismResult of the submission; the file stays.
DeleteSubmission(t, user, id) ==
    /\ CanStart(t)
    /\ nreq' = nreq + 1
    /\ LET local == [IdleThread EXCEPT !.user = user, !.sid = id]
       IN IF ~IsAdmin(user)
          THEN /\ Respond(t, local, 403, "You do not have permission to perform this action.",
                          NoResult)
               /\ UNCHANGED <<submissions, results>>
          ELSE IF ~\E o \in submissions : o.id = id
          THEN /\ Respond(t, local, 404, "Not found.", NoResult)
               /\ UNCHANGED <<submissions, results>>
          ELSE /\ submissions' = {o \in submissions : o.id # id}
               /\ results' = {r \in results : r.submission # id}
               /\ Respond(t, local, 204, None, NoResult)
    /\ UNCHANGED <<libs, modelState, call, assignments, disk>>

\* The targets checked: 8, alone in A4, and 7, whose only peer is 6.
ChurnTargets == {7, 8}

NextChurn ==
    \/ \E submission_id \in ChurnTargets : CheckBegin("t1", "prof1", submission_id, <<>>)
    \/ CheckPopulation("t1")
    \/ PersistGet("t1")
    \/ PersistWrite("t1")
    \/ \E assignment \in {"A1", "A4"} :
          UploadBegin("t2", "stud1", assignment, Upload(<<"essay", ".TXT">>, FALSE))
    \/ UploadSave("t2")
    \/ \E user \in {"admin1", "prof1"}, id \in {6, 7, 8} : DeleteSubmission("t2", user, id)

SpecChurn == Init /\ [][NextChurn]_vars

-----------------------------------------------------------------------------
(* Properties of the check handler.                                        *)

Done(t) == thr[t].pc = "done"

\* The run of thread t loaded its target and got past the checks on the
\* target's file, so the target's text was extracted.
TargetExtracted(t) ==
    /\ thr[t].submission # NoSubmission
    /\ thr[t].error \notin {"Submission has no document file.",
                            "Submission file not found on disk."}

\* No other submission shares the assignment of `submission`.
Alone(submission) ==
    \A o \in submissions : o.assignment = submission.assignment => o.id = submission.id

\* C3: when the target has no other submission in its assignment the check
\* goes from target extraction straight to persistence: no population
\* document is extracted, no engine and no sentence matcher is called, the
\* score is 0.0, the report and compared_with are empty, and the handler ends
\* in a response (200 with that result stored, or the persistence failure).
C3_EmptyPopulationTerminal ==
    \A t \in Threads :
        (TargetExtracted(t) /\ Alone(thr[t].submission)) =>
            /\ thr[t].pc # "population"
            /\ thr[t].extracted = <<>> /\ thr[t].matched = <<>>
            /\ thr[t].engine = "none" /\ thr[t].model = NoModel
            /\ thr[t].similarity = 0 /\ thr[t].detailed_report = <<>>
            /\ thr[t].pc \in {"write", "done"} =>
                  /\ thr[t].defaults.similarity_score = 0
                  /\ thr[t].defaults.report = <<>>
                  /\ thr[t].defaults.compared_with = <<>>
            /\ Done(t) =>
                  /\ thr[t].status \in {200, 500}
                  /\ thr[t].status = 500 =>
                        thr[t].error = "Failed to persist plagiarism result."
                  /\ thr[t].status = 200 =>
                        /\ thr[t].result \in results
                        /\ thr[t].result.similarity_score = 0
                        /\ thr[t].result.report = <<>>
                        /\ thr[t].result.compared_with = <<>>

\* Submission 8, alone in its assignment, checked and stored.
C3_Witness ==
    /\ Done("t1") /\ thr["t1"].sid = 8 /\ thr["t1"].status = 200
    /\ Alone(thr["t1"].submission)
    /\ thr["t1"].new_doc_text # <<>>
    /\ thr["t1"].result \in results

\* C4: a check requested with "BERT" on a non-empty target and a non-empty
\* comparison set, whose model request fails (backend not installed, or the
\* model fails to load), does not end in a 200 with a stored score.
C4_BackendFailureSurfaced ==
    \A t \in Threads :
        (/\ Done(t)
         /\ DataGet(thr[t].data, "algorithm", "TF-IDF") = "BERT"
         /\ thr[t].new_doc_text # <<>> /\ thr[t].existing_docs # <<>>
         /\ thr[t].raised \in {"ImportError", "Exception"})
        => thr[t].status # 200

\* C5: the model constructor completes at most once, and every caller of
\* get_bert_model receives the one cached instance.
C5_ModelLoadedOnce ==
    /\ loads <= 1
    /\ Cardinality(handedOut) <= 1
    /\ \A t \in Threads : (Done(t) /\ thr[t].model # NoModel) => thr[t].model = _BERT_MODEL

\* The write of a run that ends in 200 leaves exactly one row for its
\* submission, holding the values of that run, and no submission ever has
\* two rows.
C6_Step ==
    /\ \A s \in submissions' : Cardinality(ResultsFor(results', s.id)) <= 1
    /\ \A t \in Threads :
          (thr[t].pc = "write" /\ thr'[t].pc = "done" /\ thr'[t].status = 200) =>
              /\ ResultsFor(results', thr[t].submission.id) = {thr'[t].result}
              /\ thr'[t].result.similarity_score = thr[t].similarity * 100
              /\ thr'[t].result.algorithm = DataGet(thr[t].data, "algorithm", "TF-IDF")
              /\ thr'[t].result.compared_with = thr[t].defaults.compared_with
              /\ thr'[t].result.report = thr[t].detailed_report

\* C6: after any interleaving of checks there is at most one stored result
\* per submission, and a successful check of S leaves the stored result of S
\* holding that run's score, algorithm, compared_with and report.
C6_OneResultLatestRun == [][C6_Step]_vars

\* Two concurrent checks of one submission that both found no row: the
\* second insert hit the unique constraint and updated the first one's row.
C6_Witness ==
    /\ Done("t1") /\ Done("t2")
    /\ thr["t1"].status = 200 /\ thr["t2"].status = 200
    /\ thr["t1"].sid = thr["t2"].sid
    /\ thr["t1"].found = 0 /\ thr["t2"].found = 0
    /\ thr["t1"].defaults # thr["t2"].defaults
    /\ Cardinality(results) = 1

\* The population members whose text extraction succeeded.
Successes(others, fs, pdf) ==
    SelectSeq(others, LAMBDA s : s.document # NoDocument /\ Extracts(s.document, fs, pdf))

\* C7: the comparison set handed to the engine holds the texts of exactly
\* the members whose extraction succeeded, and the score is the score over
\* those texts.
C7_FailedMembersExcluded ==
    \A t \in Threads :
        (thr[t].pc \in {"persist", "write", "done"} /\ thr[t].evaluated) =>
            LET ok    == Successes(thr[t].other_submissions, disk, PdfReader)
                texts == [k \in 1..Len(ok) |->
                             extract_text_from_file(ok[k].document, disk, PdfReader)]
            IN /\ thr[t].existing_docs = texts
               /\ thr[t].engine = "lexical" =>
                     thr[t].similarity =
                         calculate_similarity(thr[t].new_doc_text, texts).value

\* C8: a check whose target has a document that is missing on disk, cannot
\* be read or yields no text still ends in 200 with a stored score of 0.0.
C8_UnextractableTargetScoredZero ==
    \A t \in Threads :
        (/\ Done(t)
         /\ thr[t].submission # NoSubmission
         /\ thr[t].submission.document # NoDocument
         /\ \/ ~PathExists(disk, thr[t].submission.document)
            \/ extract_text_from_file(thr[t].submission.document, disk, PdfReader) = <<>>)
        => /\ thr[t].status = 200
           /\ thr[t].result \in results
           /\ thr[t].result.similarity_score = 0

\* C9: a professor's or admin's check of an existing submission whose file
\* is on disk always ends in 200 with a result record.
C9_AlwaysOk ==
    \A t \in Threads :
        (/\ Done(t)
         /\ thr[t].user \in Users /\ RoleOf[thr[t].user] \in {"professor", "admin"}
         /\ thr[t].submission # NoSubmission
         /\ thr[t].submission.document # NoDocument
         /\ PathExists(disk, thr[t].submission.document))
        => /\ thr[t].status = 200
           /\ thr[t].result # NoResult

\* C10: every stored result names "TF-IDF" or "BERT", and the engine that
\* produced the score of a run is the one its stored result names.
C10_AlgorithmNamesEngine ==
    /\ \A r \in results : r.algorithm \in {"TF-IDF", "BERT"}
    /\ \A t \in Threads :
          (Done(t) /\ thr[t].status = 200) =>
              /\ thr[t].engine = "lexical" => thr[t].result.algorithm = "TF-IDF"
              /\ thr[t].engine = "semantic" => thr[t].result.algorithm = "BERT"

\* int(d) for the digits of a decimal numeral.
RECURSIVE ParseInt(_)
ParseInt(d) ==
    LET value == [c \in {"0", "1", "2", "3", "4", "5", "6", "7", "8", "9"} |->
                     CASE c = "0" -> 0 [] c = "1" -> 1 [] c = "2" -> 2 [] c = "3" -> 3
                       [] c = "4" -> 4 [] c = "5" -> 5 [] c = "6" -> 6 [] c = "7" -> 7
                       [] c = "8" -> 8 [] c = "9" -> 9]
    IN IF d = <<>> THEN 0
       ELSE 10 * ParseInt(SubSeq(d, 1, Len(d) - 1)) + value[d[Len(d)]]

\* The identifiers a stored compared_with string lists: split(","), int.
ParseIds(compared_with) ==
    LET parts == SplitFrom(compared_with, 1, <<>>, {","})
    IN [k \in 1..Len(parts) |-> ParseInt(parts[k])]

\* The identifiers of every other submission of the assignment of
\* `submission`, ascending.
PopulationIds(submission) ==
    Ids(OrderById({o \in submissions : /\ o.assignment = submission.assignment
                                       /\ o.id # submission.id}))

\* C11: the compared_with of every stored result of a check of S lists
\* exactly the identifiers of all other submissions of S's assignment, with
\* or without extractable text and with or without a match, and never S.
C11_ComparedWithFullPopulation ==
    /\ \A r \in results :
          \A s \in submissions :
              s.id = r.submission =>
                  /\ ParseIds(r.compared_with) = PopulationIds(s)
                  /\ \A k \in 1..Len(ParseIds(r.compared_with)) :
                        ParseIds(r.compared_with)[k] # s.id
    /\ \A t \in Threads :
          (Done(t) /\ thr[t].status = 200) =>
              ParseIds(thr[t].result.compared_with) = PopulationIds(thr[t].submission)

\* Submission 7 checked and stored: its only peer, submission 6, has no
\* file and took no part in the comparison, and is still listed.
C11_Witness ==
    /\ Done("t1") /\ thr["t1"].status = 200 /\ thr["t1"].sid = 7
    /\ thr["t1"].extracted = <<>>
    /\ thr["t1"].result \in results
    /\ ParseIds(thr["t1"].result.compared_with) = <<6>>

\* C12: the similarity_score of every stored result is 100 times the score
\* the run's engine returned (0.0 when no engine ran) and lies in [0, 100].
C12_ScoreIsPercentage ==
    /\ \A r \in results : r.similarity_score >= 0 /\ r.similarity_score <= 100 * ONE
    /\ \A t \in Threads :
          (Done(t) /\ thr[t].status = 200) =>
              /\ thr[t].result.similarity_score = 100 * thr[t].similarity
              /\ thr[t].engine = "none" => thr[t].result.similarity_score = 0
              /\ thr[t].engine = "lexical" =>
                    thr[t].result.similarity_score =
                        100 * calculate_similarity(thr[t].new_doc_text,
                                                   thr[t].existing_docs).value
              /\ (thr[t].engine = "semantic" /\ thr[t].raised # None) =>
                    thr[t].result.similarity_score = 0

\* A lexical run with a score strictly between 0 and 1, stored as a
\* percentage strictly between 0 and 100.
C12_Witness ==
    /\ Done("t1") /\ thr["t1"].status = 200 /\ thr["t1"].engine = "lexical"
    /\ thr["t1"].similarity > 0 /\ thr["t1"].similarity < ONE
    /\ thr["t1"].result \in results
    /\ thr["t1"].result.similarity_score > ONE

\* C13: extract_text_from_file returns a string for every path and every
\* state of the file behind it: the empty string for the empty path, an
\* extension other than .txt/.pdf, a missing or unopenable file, a PDF
\* without the PDF library or that does not parse; the decodable characters
\* of a .txt file; and for a PDF the texts of the pages that extract, in
\* document order, joined by newlines, a failing page contributing nothing.
C13_ExtractIsTotal ==
    (call.fn = "extract" /\ call.done) =>
        LET file_path == call.file_path
            value     == call.value
            ext       == IF file_path = <<>> THEN "" ELSE file_path[2]
            file      == disk[file_path]
            opens     == file_path # <<>> /\ file.exists /\ file.readable
            good      == SelectSeq(file.pages, LAMBDA pg : ~pg.raises)
        IN /\ DOMAIN value = 1..Len(value)
           /\ \A i \in 1..Len(value) : value[i] # BadByte
           /\ ~opens => value = <<>>
           /\ ext \notin {".txt", ".TXT", ".pdf", ".PDF"} => value = <<>>
           /\ (ext \in {".pdf", ".PDF"} /\ PdfReader = None) => value = <<>>
           /\ (opens /\ ext \in {".pdf", ".PDF"} /\ ~file.parses) => value = <<>>
           /\ (opens /\ ext \in {".txt", ".TXT"}) =>
                 value = SelectSeq(file.bytes, LAMBDA b : b # BadByte)
           /\ (opens /\ ext \in {".pdf", ".PDF"} /\ PdfReader # None /\ file.parses) =>
                 value = Join([k \in 1..Len(good) |-> good[k].text], <<"\n">>)

\* A PDF whose first page fails and whose second page has text: the call
\* returns the second page's text.
C13_Witness ==
    /\ call.fn = "extract" /\ call.done
    /\ call.file_path # <<>> /\ call.file_path[2] = ".PDF" /\ PdfReader # None
    /\ disk[call.file_path] = PdfFile(<<Page(TRUE, <<>>), Page(FALSE, TXT_NUM)>>)
    /\ call.value = TXT_NUM

MatchCalled == call.fn = "match" /\ call.done

\* The eligible sentences of the two documents of the call.
MatchSents1 == IF call.doc1 = <<>> THEN <<>> ELSE Sentences(call.doc1, punkt)

MatchSents2 == IF call.doc2 = <<>> THEN <<>> ELSE Sentences(call.doc2, punkt)

\* The returned matches are, in the order of the first document, one pair
\* for each eligible sentence whose maximum case-insensitive ratio over the
\* eligible sentences of the second document is at least the threshold
\* (and, if positiveOnly, above zero), each pairing that sentence with a
\* sentence reaching the maximum and carrying the rounded maximum.
PairsAre(positiveOnly) ==
    LET s1    == MatchSents1
        s2    == MatchSents2
        ratio == [k \in 1..Len(s1), m \in 1..Len(s2) |-> Ratio(Lower(s1[k]), Lower(s2[m]))]
        best  == [k \in 1..Len(s1) |->
                     {m \in 1..Len(s2) : \A o \in 1..Len(s2) : ~FracGt(ratio[k, o], ratio[k, m])}]
        kept  == [k \in 1..Len(s1) |->
                     \E m \in best[k] :
                         /\ 10000 * ratio[k, m].num >= call.threshold * ratio[k, m].den
                         /\ positiveOnly => ratio[k, m].num > 0]
        where == SelectSeq([k \in 1..Len(s1) |-> k], LAMBDA k : kept[k])
    IN /\ Len(call.value) = Len(where)
       /\ \A i \in 1..Len(where) :
             /\ call.value[i].doc1 = s1[where[i]]
             /\ \E m \in best[where[i]] :
                   /\ call.value[i].doc2 = s2[m]
                   /\ call.value[i].score = Round4(ratio[where[i], m])

\* C14 (as stated): one pair per eligible sentence of A, in A's order, with
\* a best-scoring sentence of B, present if and only if the maximum ratio
\* is >= threshold.
C14_PairIffAtThreshold == MatchCalled => PairsAre(FALSE)

\* C14 (amended): the pair is present if and only if the maximum ratio is
\* >= threshold and greater than zero.
C14_PairIffAtThresholdAndPositive == MatchCalled => PairsAre(TRUE)

\* TXT_B then SENT_U against SENT_N then TXT_A at the default threshold:
\* TXT_B pairs with TXT_A (0.8824, the best of the two), and so does SENT_U
\* (1.0, the case ignored), in that order.
C14_Witness ==
    /\ MatchCalled /\ punkt /\ call.threshold = Threshold
    /\ call.doc1 = DocOf(<<TXT_B, SENT_U>>) /\ call.doc2 = DocOf(<<SENT_N, TXT_A>>)
    /\ Len(call.value) = 2
    /\ call.value[1].doc1 = TXT_B /\ call.value[1].doc2 = TXT_A
    /\ call.value[2].doc1 = SENT_U /\ call.value[2].doc2 = TXT_A
    /\ call.value[2].score = 10000

\* C15: every sentence of every returned match, on either side, is longer
\* than 10 characters once trimmed.
C15_NoShortSentenceInMatch ==
    MatchCalled =>
        \A i \in 1..Len(call.value) :
            /\ Len(Strip(call.value[i].doc1)) > 10
            /\ Len(Strip(call.value[i].doc2)) > 10

\* The entries lines 137-148 are to leave: one for every member of the
\* population, in id order, that has a document and at least one matching
\* sentence with the target.
ExpectedReport(t) ==
    LET population == OrderById({o \in submissions :
                                    /\ o.assignment = thr[t].submission.assignment
                                    /\ o.id # thr[t].submission.id})
        matches    == [k \in 1..Len(population) |->
                          IF population[k].document = NoDocument THEN <<>>
                          ELSE extract_matching_sentences(
                                   thr[t].new_doc_text,
                                   extract_text_from_file(population[k].document, disk,
                                                          PdfReader),
                                   Threshold, punkt)]
        yielding   == SelectSeq([k \in 1..Len(population) |-> k],
                                LAMBDA k : matches[k] # <<>>)
    IN [n \in 1..Len(yielding) |->
           [compared_with |-> population[yielding[n]].id,
            matches |-> matches[yielding[n]]]]

\* C16: the report of a check holds exactly one entry per population member
\* that yielded a sentence match, in population order, with the member's id
\* and its non-empty match list; members without a match or whose document
\* cannot be opened have none and do not remove the entries of the others.
C16_ReportListsMatchingMembers ==
    \A t \in Threads :
        (thr[t].pc \in {"persist", "write"} \/ (Done(t) /\ thr[t].status = 200))
            => LET expected == ExpectedReport(t)
               IN /\ thr[t].detailed_report = expected
                  /\ \A k \in 1..Len(expected) : expected[k].matches # <<>>
                  /\ (Done(t) /\ thr[t].status = 200) => thr[t].result.report = expected

\* Submission 1 checked with 2 holding no document and 3 a matching text:
\* the report has the entry of 3.
C16_Witness ==
    /\ Done("t1") /\ thr["t1"].status = 200 /\ thr["t1"].sid = 1
    /\ \E o \in submissions : o.id = 2 /\ o.document = NoDocument
    /\ Len(thr["t1"].result.report) = 1
    /\ thr["t1"].result.report[1].compared_with = 3

\* C17: the lexical score of a run is calculate_similarity of the run's own
\* texts whatever was served before, and a lexical run that replaces the
\* row of an earlier lexical run of the same target stores the same score.
C17_Step ==
    \A t \in Threads :
        /\ (thr[t].pc = "population" /\ thr'[t].engine = "lexical")
            => thr'[t].similarity =
                   calculate_similarity(thr'[t].new_doc_text, thr'[t].existing_docs).value
        /\ (/\ thr[t].pc = "write" /\ thr'[t].pc = "done" /\ thr'[t].status = 200
            /\ thr[t].engine # "semantic")
            => \A old \in ResultsFor(results, thr[t].submission.id) :
                   old.algorithm # "BERT"
                       => thr'[t].result.similarity_score = old.similarity_score

HasTerms(doc) == Analyze(preprocess_text(doc)) # <<>>

\* A lexical call whose comparison list holds the target text itself.
ListsTarget ==
    /\ Called /\ call.fn = "lexical"
    /\ \E k \in 1..Len(call.existing_docs) : call.existing_docs[k] = call.new_doc

C19_EncodesWithNamedModel ==
    (Called /\ call.fn = "semantic" /\ call.model # NoModel) =>
        call.model.name = call.model_name

MayCheck(user) == RoleOf[user] \in {"professor", "admin"}

\* C20: a check request of a user who is neither professor nor admin ends
\* with 403 at once, no submission loaded and the stored results as they
\* were; the stored results change only in the write of a request made by a
\* professor or an admin.
C20_Step ==
    /\ \A t \in Threads :
          (thr'[t] # thr[t] /\ thr'[t].user \in Users /\ ~MayCheck(thr'[t].user)) =>
              /\ thr'[t].pc = "done" /\ thr'[t].status = 403
              /\ thr'[t].submission = NoSubmission /\ thr'[t].result = NoResult
              /\ results' = results
    /\ results' # results =>
          \E t \in Threads : /\ thr[t].pc = "write" /\ thr'[t].pc = "done"
                              /\ MayCheck(thr[t].user)

C20_OnlyStaffChangesResults == [][C20_Step]_vars

\* A student's request refused with a result already stored.
C20_Witness ==
    /\ Done("t1") /\ thr["t1"].user = "stud1" /\ thr["t1"].status = 403
    /\ thr["t1"].submission = NoSubmission
    /\ results # {}

\* The results of a response, as a set.
Returned == {call.value[k] : k \in 1..Len(call.value)}

\* C21: whatever is stored, the list and the detail endpoint return to a
\* student only results of submissions of that student, to a professor only
\* results of submissions to that professor's assignments, to a user of
\* another role but admin nothing and to an admin every result asked for;
\* the detail endpoint returns a result exactly when the list of the same
\* user holds it.
C21_ResultsScopedByRole ==
    call.fn \in {"list", "detail"} =>
        LET role == RoleOf[call.user]
            mine == {r \in results :
                        \E o \in submissions :
                            /\ o.id = r.submission
                            /\ \/ role = "admin"
                               \/ role = "student" /\ o.student = call.user
                               \/ /\ role = "professor"
                                  /\ Assignment(o.assignment, call.user) \in assignments}
        IN /\ Returned \subseteq mine
           /\ call.fn = "list" => Returned = mine /\ Len(call.value) = Cardinality(mine)
           /\ call.fn = "detail" => Returned = ResultsFor(mine, call.sid)
           /\ (call.fn = "detail" /\ call.status = 200) => Returned # {}

\* stud1 asks for the result of submission 2, which is stud2's and stored:
\* 404, nothing returned.
C21_Witness ==
    /\ call.fn = "detail" /\ call.user = "stud1" /\ call.sid = 2
    /\ ResultsFor(results, 2) # {} /\ ResultsFor(results, 1) # {}
    /\ call.status = 404 /\ call.value = <<>>

\* C22: no step of a check request changes a Submission row, an Assignment
\* row or a file; the stored results change only in the write of a request,
\* and then only in the result of that request's target.
C22_Step ==
    /\ submissions' = submissions
    /\ assignments' = assignments
    /\ disk' = disk
    /\ results' # results =>
          \E t \in Threads :
              /\ thr[t].pc = "write"
              /\ \A r \in results \cup results' :
                    r.submission # thr[t].submission.id => r \in results /\ r \in results'

C23_OneSubmissionPerPair ==
    /\ \A o \in submissions, q \in submissions :
          (o.student = q.student /\ o.assignment = q.assignment) => o = q
    /\ \A t \in Threads :
          (Done(t) /\ thr[t].status = 201) => thr[t].submission \in submissions

\* C24: the ids stored in compared_with by a check are those of the
\* population the run computed its score and report from, also when
\* submissions are uploaded or deleted while it runs: the members it
\* iterated over, and none for a run that found no other submission.
C24_ComparedWithIsThePopulationUsed ==
    \A t \in Threads :
        (Done(t) /\ thr[t].status = 200 /\ thr[t].result # NoResult) =>
            ParseIds(thr[t].result.compared_with) =
                (IF thr[t].evaluated THEN Ids(thr[t].other_submissions) ELSE <<>>)

\* C25: a check request answered 403, 404, 400 or 500 before the write of
\* the result leaves the stored results as they were.
C25_Step ==
    \A t \in Threads :
        (/\ thr[t].pc \in {"idle", "done"} /\ nreq' = nreq + 1
         /\ thr'[t].pc = "done" /\ thr'[t].status \in {400, 403, 404, 500})
        => results' = results

C25_ErrorLeavesResults == [][C25_Step]_vars

\* A request for a submission without a document answered 400 with the
\* result of an earlier check still stored.
C25_Witness ==
    /\ Done("t1") /\ thr["t1"].status = 400 /\ thr["t1"].sid = 6
    /\ results # {} /\ ResultsFor(results, 6) = {}

=============================================================================
